---- MODULE Spec2Model ----
(***************************************************************************)
(* PDF-to-image conversion pipeline: page-range parsing, coalescing of     *)
(* pages into contiguous ranges, invocation of the rasterization engine,   *)
(* normalization of the engine's output files and the result report.       *)
(*                                                                         *)
(* Strings are sequences of one-character strings (a page expression) or   *)
(* of atomic tokens (a file name, a command line), so that parsing and     *)
(* formatting are computed the way the code computes them.                 *)
(***************************************************************************)
EXTENDS Integers, Sequences, FiniteSets, TLC

(***************************************************************************)
(* Bounds of the model.                                                    *)
(***************************************************************************)
\* longest page expression enumerated by the parser specification
MaxExprLen == 4

(***************************************************************************)
(* Characters and strings.                                                 *)
(***************************************************************************)
DigitChars == <<"0", "1", "2", "3", "4", "5", "6", "7", "8", "9">>

IsDigit(c) == \E i \in 1..10 : DigitChars[i] = c

DigitVal(c) == (CHOOSE i \in 1..10 : DigitChars[i] = c) - 1

\* the characters page expressions are built from
ExprAlphabet == {"0", "1", "2", "3", ",", "-", " ", "x"}

RECURSIVE StringsUpTo(_)
StringsUpTo(n) ==
    IF n = 0 THEN {<<>>}
    ELSE LET shorter == StringsUpTo(n - 1)
         IN shorter \cup {Append(s, c) : s \in {t \in shorter : Len(t) = n - 1},
                                         c \in ExprAlphabet}

ALL == <<"a", "l", "l">>

\* String.prototype.trim: leading and trailing white space removed
RECURSIVE TrimLeft(_)
TrimLeft(s) ==
    IF s # <<>> /\ Head(s) = " " THEN TrimLeft(Tail(s)) ELSE s

RECURSIVE TrimRight(_)
TrimRight(s) ==
    IF s # <<>> /\ s[Len(s)] = " " THEN TrimRight(SubSeq(s, 1, Len(s) - 1)) ELSE s

Trim(s) == TrimRight(TrimLeft(s))

\* String.prototype.includes for a one-character needle
Includes(s, c) == \E i \in 1..Len(s) : s[i] = c

\* String.prototype.split for a one-character separator: "" splits to [""]
RECURSIVE SplitFrom(_, _, _)
SplitFrom(s, sep, cur) ==
    IF s = <<>> THEN <<cur>>
    ELSE IF Head(s) = sep THEN <<cur>> \o SplitFrom(Tail(s), sep, <<>>)
    ELSE SplitFrom(Tail(s), sep, Append(cur, Head(s)))

Split(s, sep) == SplitFrom(s, sep, <<>>)

\* the longest prefix of digits of s
RECURSIVE DigitPrefix(_)
DigitPrefix(s) ==
    IF s # <<>> /\ IsDigit(Head(s)) THEN <<Head(s)>> \o DigitPrefix(Tail(s)) ELSE <<>>

RECURSIVE RadixValue(_, _, _)
RadixValue(ds, radix, acc) ==
    IF ds = <<>> THEN acc
    ELSE RadixValue(Tail(ds), radix, acc * radix + DigitVal(Head(ds)))

NaN == [nan |-> TRUE, val |-> 0]

isNaN(r) == r.nan

\* parseInt(string) without a radix: white space skipped, an optional sign,
\* an optional 0x prefix (radix 16), then the longest prefix of digits;
\* NaN when there is none.  Of the hexadecimal digits only 0-9 occur in
\* the strings enumerated here.
parseInt(s) ==
    LET t == TrimLeft(s)
        signed == t # <<>> /\ Head(t) \in {"-", "+"}
        neg == t # <<>> /\ Head(t) = "-"
        u == IF signed THEN Tail(t) ELSE t
        hex == Len(u) >= 2 /\ u[1] = "0" /\ u[2] \in {"x", "X"}
        body == IF hex THEN SubSeq(u, 3, Len(u)) ELSE u
        ds == DigitPrefix(body)
        v == RadixValue(ds, IF hex THEN 16 ELSE 10, 0)
    IN IF ds = <<>> THEN NaN
       ELSE [nan |-> FALSE, val |-> IF neg THEN 0 - v ELSE v]

\* for (let i = start; i <= end; i++) pages.push(i)
RECURSIVE PushRange(_, _, _)
PushRange(pgs, start, end) ==
    IF start > end THEN pgs ELSE PushRange(Append(pgs, start), start + 1, end)

\* [...new Set(pages)]: first occurrences, in insertion order
RECURSIVE Dedupe(_, _)
Dedupe(s, seen) ==
    IF s = <<>> THEN <<>>
    ELSE IF Head(s) \in seen THEN Dedupe(Tail(s), seen)
    ELSE <<Head(s)>> \o Dedupe(Tail(s), seen \cup {Head(s)})

\* Array.prototype.sort((a, b) => a - b)
RECURSIVE InsertSorted(_, _)
InsertSorted(s, x) ==
    IF s = <<>> THEN <<x>>
    ELSE IF x < Head(s) THEN <<x>> \o s
    ELSE <<Head(s)>> \o InsertSorted(Tail(s), x)

RECURSIVE SortNum(_)
SortNum(s) ==
    IF s = <<>> THEN <<>> ELSE InsertSorted(SortNum(Tail(s)), Head(s))

\* [...new Set(pages)].sort((a, b) => a - b) without the Set
UniqueSortedNoDedupe(pgs) == SortNum(pgs)

UniqueSorted(pgs) == SortNum(Dedupe(pgs, {}))

(***************************************************************************)
(* parsePageRange, as converter.ts and the fast converter have it: a term  *)
(* that does not parse throws.                                             *)
(***************************************************************************)
Parsed(pgs) == [ok |-> TRUE, pages |-> pgs, message |-> "", token |-> <<>>]

Thrown(msg, tok) == [ok |-> FALSE, pages |-> <<>>, message |-> msg, token |-> tok]

RECURSIVE LegacyParts(_, _)
LegacyParts(parts, pgs) ==
    IF parts = <<>> THEN Parsed(UniqueSorted(pgs))
    ELSE
      LET trimmed == Trim(Head(parts))
      IN IF Includes(trimmed, "-")
         THEN LET rangeParts == Split(trimmed, "-")
                  startStr == Trim(rangeParts[1])
                  endStr == Trim(rangeParts[2])
                  start == parseInt(startStr)
                  end == parseInt(endStr)
              IN IF Len(rangeParts) # 2
                 THEN Thrown("Invalid page range format: ", trimmed)
                 ELSE IF startStr = <<>> \/ endStr = <<>>
                 THEN Thrown("Invalid page range: ", trimmed)
                 ELSE IF isNaN(start) \/ isNaN(end)
                 THEN Thrown("Invalid page range: ", trimmed)
                 ELSE LegacyParts(Tail(parts), PushRange(pgs, start.val, end.val))
         ELSE LET pageNum == parseInt(trimmed)
              IN IF isNaN(pageNum)
                 THEN Thrown("Invalid page number: ", trimmed)
                 ELSE LegacyParts(Tail(parts), Append(pgs, pageNum.val))

parsePageRangeLegacy(pageRange) ==
    IF pageRange = ALL THEN Parsed(<<>>)
    ELSE LegacyParts(Split(pageRange, ","), <<>>)

(***************************************************************************)
(* parsePageRange of the Poppler converter: a term that does not parse is  *)
(* skipped.                                                                *)
(***************************************************************************)
RECURSIVE PopplerParts(_, _)
PopplerParts(parts, pgs) ==
    IF parts = <<>> THEN UniqueSorted(pgs)
    ELSE
      LET trimmed == Trim(Head(parts))
      IN IF Includes(trimmed, "-")
         THEN LET strs == Split(trimmed, "-")
                  start == parseInt(Trim(strs[1]))
                  end == parseInt(Trim(strs[2]))
              IN IF ~isNaN(start) /\ ~isNaN(end)
                 THEN PopplerParts(Tail(parts), PushRange(pgs, start.val, end.val))
                 ELSE PopplerParts(Tail(parts), pgs)
         ELSE LET p == parseInt(trimmed)
              IN IF ~isNaN(p)
                 THEN PopplerParts(Tail(parts), Append(pgs, p.val))
                 ELSE PopplerParts(Tail(parts), pgs)

parsePageRange(pageRange) ==
    IF pageRange = ALL THEN <<>>
    ELSE PopplerParts(Split(pageRange, ","), <<>>)

(***************************************************************************)
(* getRanges: maximal runs of consecutive pages of a sorted page list.     *)
(***************************************************************************)
Range(start, end) == [start |-> start, end |-> end]

RECURSIVE RangesFrom(_, _, _, _)
RangesFrom(rest, start, prev, ranges) ==
    IF rest = <<>> THEN Append(ranges, Range(start, prev))
    ELSE LET current == Head(rest)
         IN IF current # prev + 1
            THEN RangesFrom(Tail(rest), current, current, Append(ranges, Range(start, prev)))
            ELSE RangesFrom(Tail(rest), start, current, ranges)

\* one range for every page: no coalescing
RECURSIVE getRangesPerPage(_)
getRangesPerPage(pgs) ==
    IF pgs = <<>> THEN <<>>
    ELSE <<Range(Head(pgs), Head(pgs))>> \o getRangesPerPage(Tail(pgs))

\* one range from the first page to the last, gaps included
getRangesSpan(pgs) ==
    IF pgs = <<>> THEN <<>>
    ELSE << Range(Head(SortNum(pgs)), SortNum(pgs)[Len(pgs)]) >>

getRanges(pgs) ==
    IF pgs = <<>> THEN <<>>
    ELSE LET sorted == SortNum(pgs)
         IN RangesFrom(Tail(sorted), Head(sorted), Head(sorted), <<>>)

(***************************************************************************)
(* File names and paths, as sequences of tokens: a stem, "-", "_page_",    *)
(* ".", an extension, and one token for every digit.                       *)
(***************************************************************************)
RECURSIVE NumToDigits(_)
NumToDigits(n) ==
    IF n < 10 THEN <<DigitChars[n + 1]>>
    ELSE Append(NumToDigits(n \div 10), DigitChars[(n % 10) + 1])

\* no padding at all
padStartNone(ds, width) == ds

\* String.prototype.padStart(width, "0")
RECURSIVE padStart(_, _)
padStart(ds, width) ==
    IF Len(ds) >= width THEN ds ELSE padStart(<<"0">> \o ds, width)

\* String.prototype.endsWith
endsWith(name, suffix) ==
    /\ Len(name) >= Len(suffix)
    /\ SubSeq(name, Len(name) - Len(suffix) + 1, Len(name)) = suffix

\* path.basename(p, ext): the extension is removed when the name ends with
\* it (compared case-sensitively) and is not the whole name
basename(p, ext) ==
    IF endsWith(p, ext) /\ Len(p) > Len(ext)
    THEN SubSeq(p, 1, Len(p) - Len(ext))
    ELSE p

PdfExt == <<".", "pdf">>

\* the digits of file.match(/-(\d+)\.(jpg|png)$/), or <<>> without a match
RECURSIVE DigitSuffix(_)
DigitSuffix(s) ==
    IF s # <<>> /\ IsDigit(s[Len(s)])
    THEN Append(DigitSuffix(SubSeq(s, 1, Len(s) - 1)), s[Len(s)])
    ELSE <<>>

matchPageToken(file) ==
    IF Len(file) >= 2 /\ file[Len(file)] \in {"jpg", "png"} /\ file[Len(file) - 1] = "."
    THEN LET front == SubSeq(file, 1, Len(file) - 2)
             ds == DigitSuffix(front)
             before == Len(front) - Len(ds)
         IN IF ds # <<>> /\ before >= 1 /\ front[before] = "-" THEN ds ELSE <<>>
    ELSE <<>>

\* `${path.basename(pdfPath, ".pdf")}_page_${n.toString().padStart(3, "0")}.${format}`
PagePadWidth == 3

\* a name that keeps the engine's separator and numbers the page one higher
canonicalNameEngineStyle(pdf, pageNum, fmt) ==
    basename(pdf, PdfExt) \o <<"-">> \o NumToDigits(pageNum + 1) \o <<".", fmt>>

canonicalName(pdf, pageNum, fmt) ==
    basename(pdf, PdfExt) \o <<"_page_">> \o padStart(NumToDigits(pageNum), PagePadWidth)
        \o <<".", fmt>>

(***************************************************************************)
(* State of one conversion call.                                           *)
(***************************************************************************)
VARIABLES
    impl,              \* the converter running: "poppler", "fast", "legacy", "parser"
    pdfPath,           \* options and arguments of the call
    pages,
    format,
    options,           \* [dpi, quality, maxConcurrency]
    numPages,          \* pages of the source document
    padWidth,          \* digits the engine writes a page number with
    dir0,              \* the output directory before the call: [exists, files]
    pc,                \* position of the orchestrator
    dirExists,
    dir,               \* file names in the output directory
    pageNumbers,
    launched,          \* engine commands launched, in launch order
    status,            \* per command: "running", "ok", "failed"
    rejection,         \* index of the command whose failure rejected the await, or 0
    files,             \* readdir entries not yet visited by the rename loop
    generatedFiles,
    convertedPageNums,
    outcome,           \* what the call returned or threw
    parsed,            \* parser specification: results of the two parsers
    batches,           \* fast converter: createBatches of the pages or results
    batchIdx,          \* the batch in flight, 0 before the first
    pending,           \* items of the batch in flight that have not settled
    batchResults,      \* settled items of the batch in flight: item -> result
    results,           \* fast converter: bulk results, or convertToPng's pngResults
    filePath,          \* validatePdfFile: its argument
    fsKind,            \* what the path names: "missing", "file", "dir"
    vpc,               \* position of validatePdfFile
    validation,        \* how validatePdfFile settled
    naming,            \* createOutputFilename: arguments and return value
    variant,           \* the /api/convert handler: "local" or "gcs"
    hpc,               \* position of the handler
    reqFile,           \* req.file is set: the request carried an upload
    uploadPresent,     \* the uploaded source is still in its storage
    tempDir,           \* gcs: the temporary directory exists
    deleteAttempts,    \* calls made to delete the uploaded source
    failedStep,        \* the step whose error entered the catch block, or "none"
    response,          \* status of the response sent, 0 before
    pageList,          \* getRanges: its argument
    pageRanges,        \* getRanges: whether it has returned, and its return value
    pass,              \* normalization on its own: runs of it begun on the directory
    firstPass,         \* the directory and the result the first run left
    tempDirSet,        \* gcs: the handler's variable tempDir holds a path
    rmAttempts,        \* gcs: calls made to remove the temporary directory
    now,               \* Date.now(), the clock of the server process
    reqState,          \* each /api/convert request: "idle", "inflight" or "done"
    reqDir,            \* each request: the Date.now() in its directory name
    loopItems,         \* createBatches: items
    loopSize,          \* createBatches: batchSize
    loopI,             \* createBatches: i
    loopBatches,       \* createBatches: batches
    loopPc             \* createBatches: "loop" or "returned"

vars == <<impl, pdfPath, pages, format, options, numPages, padWidth, dir0, pc,
          dirExists, dir, pageNumbers, launched, status, rejection, files,
          generatedFiles, convertedPageNums, outcome, parsed, batches, batchIdx,
          pending, batchResults, results, filePath, fsKind, vpc, validation,
          naming, variant, hpc, reqFile, uploadPresent, tempDir, deleteAttempts,
          failedStep, response, pageList, pageRanges, pass, firstPass, tempDirSet,
          rmAttempts, now, reqState, reqDir, loopItems, loopSize, loopI, loopBatches,
          loopPc>>

utilVars == <<filePath, fsKind, vpc, validation, naming>>

tempVars == <<tempDirSet, rmAttempts>>

serverVars == <<variant, hpc, reqFile, uploadPresent, tempDir, deleteAttempts,
                failedStep, response, tempVars>>

rangeVars == <<pageList, pageRanges>>

normVars == <<pass, firstPass>>

dirVars == <<now, reqState, reqDir>>

loopVars == <<loopItems, loopSize, loopI, loopBatches, loopPc>>

extraVars == <<rangeVars, normVars, dirVars, loopVars>>

hostVars == <<utilVars, serverVars, extraVars>>

fastVars == <<batches, batchIdx, pending, batchResults, results>>

request == <<impl, pdfPath, pages, format, options, numPages, padWidth, dir0>>

\* largest source document
MaxDocPages == 3

\* most digits the engine pads a page number to
MaxPad == 2

\* page selectors of the conversions explored
Selectors ==
    { ALL,
      <<"1">>,
      <<"2", ",", "3">>,
      <<"1", ",", "3">>,
      <<"3", ",", "1", ",", "1">>,
      <<"1", "-", "3">>,
      <<"1", ",", "x", ",", "3">>,
      <<"a", "b", "c">>,
      <<>>,
      <<"0">>,
      <<"3", "-", "1">> }

Formats == {"jpg", "png"}

PdfPaths == { <<"test", ".", "pdf">> }

\* largest maxConcurrency option explored
MaxConcurrency == 2

OptionSets(concurrencies) ==
    { [dpi |-> 150, quality |-> 80, maxConcurrency |-> c] : c \in concurrencies }

\* what the output directory holds before the call
Directory(names) == [exists |-> TRUE, files |-> names]

InitialDirs ==
    { [exists |-> FALSE, files |-> {}],
      Directory({}),
      Directory({ <<"test", "-", "1", ".", "jpg">>, <<"test", "-", "0", "1", ".", "jpg">> }),
      Directory({ <<"other", "-", "2", ".", "png">>, <<"notes", ".", "txt">> }),
      Directory({ <<"test", "_page_", "0", "0", "1", ".", "jpg">> }) }

NoOutcome == [kind |-> "none", imageCount |-> 0, pagesConverted |-> <<>>,
              format |-> "", error |-> "", cause |-> 0]

Result(count, pgs, fmt) ==
    [kind |-> "result", imageCount |-> count, pagesConverted |-> pgs,
     format |-> fmt, error |-> "", cause |-> 0]

Failure(err, cause) ==
    [kind |-> "error", imageCount |-> 0, pagesConverted |-> <<>>,
     format |-> "", error |-> err, cause |-> cause]

NoParse == [legacy |-> Parsed(<<>>), poppler |-> Parsed(<<>>), ran |-> {}]

InitCall(converter, selectors, formats, docs, concurrencies, pads, dirs) ==
    /\ impl = converter
    /\ pdfPath \in PdfPaths
    /\ pages \in selectors
    /\ format \in formats
    /\ options \in OptionSets(concurrencies)
    /\ numPages \in docs
    /\ padWidth \in pads
    /\ dir0 \in dirs
    /\ pc = "start"
    /\ dirExists = dir0.exists
    /\ dir = dir0.files
    /\ pageNumbers = <<>>
    /\ launched = <<>>
    /\ status = <<>>
    /\ rejection = 0
    /\ files = {}
    /\ generatedFiles = <<>>
    /\ convertedPageNums = <<>>
    /\ outcome = NoOutcome
    /\ parsed = NoParse
    /\ batches = <<>>
    /\ batchIdx = 0
    /\ pending = {}
    /\ batchResults = <<>>
    /\ results = <<>>

\* no call of a utility in progress
NoValidation == [kind |-> "none", prefix |-> "", message |-> "", got |-> <<>>]

NoNaming == [originalName |-> <<>>, pageNumber |-> 0, extension |-> "", result |-> <<>>]

UtilIdle ==
    /\ filePath = <<>>
    /\ fsKind = "missing"
    /\ vpc = "idle"
    /\ validation = NoValidation
    /\ naming = NoNaming

ServerIdle ==
    /\ variant = "local"
    /\ hpc = "idle"
    /\ reqFile = FALSE
    /\ uploadPresent = FALSE
    /\ tempDir = FALSE
    /\ deleteAttempts = 0
    /\ failedStep = "none"
    /\ response = 0
    /\ tempDirSet = FALSE
    /\ rmAttempts = 0

\* getRanges not called yet
NoRanges == [returned |-> FALSE, value |-> <<>>]

RangeIdle ==
    /\ pageList = <<>>
    /\ pageRanges = NoRanges

\* no run of the normalization on its own
NoPass == [dir |-> {}, outcome |-> NoOutcome]

NormIdle ==
    /\ pass = 0
    /\ firstPass = NoPass

\* most /api/convert requests in flight
MaxRequests == 2

Requests == 1..MaxRequests

DirIdle ==
    /\ now = 0
    /\ reqState = [r \in Requests |-> "idle"]
    /\ reqDir = [r \in Requests |-> 0]

LoopIdle ==
    /\ loopItems = <<>>
    /\ loopSize = 1
    /\ loopI = 0
    /\ loopBatches = <<>>
    /\ loopPc = "returned"

ExtraIdle == RangeIdle /\ NormIdle /\ DirIdle /\ LoopIdle

HostIdle == UtilIdle /\ ServerIdle /\ ExtraIdle

(***************************************************************************)
(* The Poppler converter, convertPdfToImages.                              *)
(***************************************************************************)
\* await fs.mkdir(outputDir, { recursive: true })
Mkdir ==
    /\ pc = "start"
    /\ dirExists' = TRUE
    /\ pc' = "invoke"
    /\ UNCHANGED <<request, hostVars, dir, pageNumbers, launched, status, rejection, files,
                   generatedFiles, convertedPageNums, outcome, parsed, fastVars>>

\* the mkdir rejects (permissions, disk full): the catch block rethrows
MkdirFails ==
    /\ pc = "start"
    /\ ~dirExists
    /\ outcome' = Failure("mkdir", 0)
    /\ pc' = "done"
    /\ UNCHANGED <<request, hostVars, dirExists, dir, pageNumbers, launched, status, rejection,
                   files, generatedFiles, convertedPageNums, parsed, fastVars>>

formatFlag(fmt) == IF fmt = "png" THEN "-png" ELSE "-jpeg"

\* a command line that carries the quality option whatever the format
CommandAlwaysQuality(fmt, opts, bounded, f, l, pdf) ==
    [formatFlag |-> formatFlag(fmt),
     jpegopt |-> TRUE,
     quality |-> opts.quality,
     r |-> opts.dpi,
     bounded |-> bounded,
     f |-> f,
     l |-> l,
     pdfPath |-> pdf,
     outputPrefix |-> basename(pdf, PdfExt)]

\* `${baseCmd} -f ${range.start} -l ${range.end} "${pdfPath}" "${outputPrefix}"`:
\* the options of the command line
Command(fmt, opts, bounded, f, l, pdf) ==
    [formatFlag |-> formatFlag(fmt),
     jpegopt |-> fmt = "jpg",
     quality |-> IF fmt = "jpg" THEN opts.quality ELSE 0,
     r |-> opts.dpi,
     bounded |-> bounded,
     f |-> f,
     l |-> l,
     pdfPath |-> pdf,
     outputPrefix |-> basename(pdf, PdfExt)]

\* the commands of one call: one for the document, or one for every range
Commands(pgs, fmt, opts, pdf) ==
    IF Len(pgs) = 0
    THEN << Command(fmt, opts, FALSE, 0, 0, pdf) >>
    ELSE LET ranges == getRanges(pgs)
         IN [i \in 1..Len(ranges) |->
                Command(fmt, opts, TRUE, ranges[i].start, ranges[i].end, pdf)]

\* parsePageRange, the command lines, and every exec of them: no await lies
\* between them
Invoke ==
    /\ pc = "invoke"
    /\ pageNumbers' = parsePageRange(pages)
    /\ launched' = Commands(pageNumbers', format, options, pdfPath)
    /\ status' = [i \in 1..Len(launched') |-> "running"]
    /\ pc' = "await"
    /\ UNCHANGED <<request, hostVars, dirExists, dir, rejection, files, generatedFiles,
                   convertedPageNums, outcome, parsed, fastVars>>

(***************************************************************************)
(* The rasterization engine (pdftoppm), one process per command: it writes *)
(* <prefix>-<page>.<ext> for every page of its range that the document     *)
(* has, the page number padded to padWidth digits, and exits.  A process   *)
(* may fail for a reason of its own (unreadable or encrypted input,        *)
(* missing binary) after writing some of its files; a range outside the    *)
(* document is either refused or cut to the document.                      *)
(***************************************************************************)
EngineExt(cmd) == IF cmd.formatFlag = "-png" THEN "png" ELSE "jpg"

EnginePages(cmd, n) ==
    IF cmd.bounded THEN {p \in cmd.f..cmd.l : 1 <= p /\ p <= n} ELSE 1..n

EngineFile(cmd, p, width) ==
    cmd.outputPrefix \o <<"-">> \o padStart(NumToDigits(p), width) \o <<".", EngineExt(cmd)>>

EngineOk(i) ==
    /\ i \in 1..Len(launched)
    /\ status[i] = "running"
    /\ status' = [status EXCEPT ![i] = "ok"]
    /\ dir' = dir \cup {EngineFile(launched[i], p, padWidth) :
                          p \in EnginePages(launched[i], numPages)}
    /\ UNCHANGED <<request, hostVars, pc, dirExists, pageNumbers, launched, rejection, files,
                   generatedFiles, convertedPageNums, outcome, parsed, fastVars>>

\* a non-zero exit, the pages before `upto` written; the first rejection
\* settles the Promise.all
EngineFails(i) ==
    /\ i \in 1..Len(launched)
    /\ status[i] = "running"
    /\ \E upto \in EnginePages(launched[i], numPages) \cup {0} :
          dir' = dir \cup {EngineFile(launched[i], p, padWidth) :
                             p \in {q \in EnginePages(launched[i], numPages) : q < upto}}
    /\ status' = [status EXCEPT ![i] = "failed"]
    /\ rejection' = IF rejection = 0 THEN i ELSE rejection
    /\ UNCHANGED <<request, hostVars, pc, dirExists, pageNumbers, launched, files,
                   generatedFiles, convertedPageNums, outcome, parsed, fastVars>>

\* Promise.allSettled in place of Promise.all: failures do not reject
AllSettled(st) == \A i \in 1..Len(st) : st[i] # "running"

\* every promise of the Promise.all (or the one awaited exec) is fulfilled
AllFulfilled(st) == \A i \in 1..Len(st) : st[i] = "ok"

\* await Promise.all(...) resolves
AwaitResolves ==
    /\ pc = "await"
    /\ AllFulfilled(status)
    /\ pc' = "readdir"
    /\ UNCHANGED <<request, hostVars, dirExists, dir, pageNumbers, launched, status, rejection,
                   files, generatedFiles, convertedPageNums, outcome, parsed, fastVars>>

\* await Promise.all(...) rejects with the first failure; catch rethrows it
AwaitRejects ==
    /\ pc = "await"
    /\ rejection # 0
    /\ outcome' = Failure("engine", rejection)
    /\ pc' = "done"
    /\ UNCHANGED <<request, hostVars, dirExists, dir, pageNumbers, launched, status, rejection,
                   files, generatedFiles, convertedPageNums, parsed, fastVars>>

\* const files = await fs.readdir(outputDir)
Readdir ==
    /\ pc = "readdir"
    /\ files' = dir
    /\ pc' = "rename"
    /\ UNCHANGED <<request, hostVars, dirExists, dir, pageNumbers, launched, status, rejection,
                   generatedFiles, convertedPageNums, outcome, parsed, fastVars>>

\* one iteration of the loop over the entries, in the order readdir gave
\* them (any order)
RenameStep(file) ==
    /\ pc = "rename"
    /\ file \in files
    /\ files' = files \ {file}
    /\ LET digits == matchPageToken(file)
           pageNum == parseInt(digits).val
           newFileName == canonicalName(pdfPath, pageNum, format)
       IN IF endsWith(file, <<".", format>>) /\ digits # <<>>
          THEN /\ dir' = IF file # newFileName
                         THEN (dir \ {file}) \cup {newFileName}
                         ELSE dir
               /\ generatedFiles' = Append(generatedFiles, newFileName)
               /\ convertedPageNums' = Append(convertedPageNums, pageNum)
          ELSE UNCHANGED <<dir, generatedFiles, convertedPageNums>>
    /\ UNCHANGED <<request, hostVars, pc, dirExists, pageNumbers, launched, status, rejection,
                   outcome, parsed, fastVars>>

\* the result object
Finish ==
    /\ pc = "rename"
    /\ files = {}
    /\ outcome' = Result(Len(generatedFiles), SortNum(convertedPageNums), format)
    /\ pc' = "done"
    /\ UNCHANGED <<request, hostVars, dirExists, dir, pageNumbers, launched, status, rejection,
                   files, generatedFiles, convertedPageNums, parsed, fastVars>>

\* ConvertOptions.maxConcurrency is optional (0: not given); the Poppler
\* converter does not read it
Init ==
    /\ InitCall("poppler", Selectors, Formats, 1..MaxDocPages, 0..MaxConcurrency,
                1..MaxPad, InitialDirs)
    /\ HostIdle

Next ==
    \/ Mkdir
    \/ MkdirFails
    \/ Invoke
    \/ \E i \in 1..Len(launched) : EngineOk(i)
    \/ \E i \in 1..Len(launched) : EngineFails(i)
    \/ AwaitResolves
    \/ AwaitRejects
    \/ Readdir
    \/ \E file \in files : RenameStep(file)
    \/ Finish

Spec == Init /\ [][Next]_vars

(***************************************************************************)
(* The fast converter, convertPdfToImagesFast, over pdf2pic and sharp.     *)
(* One conversion of a page settles in one step with what became of it:    *)
(* "ok", "engineError" (convert rejects), "invalid" (a result without a    *)
(* path) or "sharpError" (the JPEG encoding rejects).                      *)
(***************************************************************************)
\* parsePageRange of the fast converter: the text of converter.ts's
parsePageRangeFast(pageRange) == parsePageRangeLegacy(pageRange)

\* items.slice(i, i + batchSize) for i = 0, batchSize, 2 * batchSize, ...
RECURSIVE createBatches(_, _)
createBatches(items, batchSize) ==
    IF items = <<>> THEN <<>>
    ELSE IF Len(items) <= batchSize THEN <<items>>
    ELSE <<SubSeq(items, 1, batchSize)>>
            \o createBatches(SubSeq(items, batchSize + 1, Len(items)), batchSize)

SeqToSet(s) == {s[i] : i \in 1..Len(s)}

\* results.indexOf(result)
indexOf(s, x) ==
    IF x \in SeqToSet(s) THEN (CHOOSE i \in 1..Len(s) : s[i] = x /\ \A j \in 1..(i - 1) : s[j] # x) - 1
    ELSE 0 - 1

\* the file pdf2pic writes for a page: <saveFilename>.<page>.<format>
Pdf2picFile(pdf, p, fmt) == basename(pdf, PdfExt) \o <<".">> \o NumToDigits(p) \o <<".", fmt>>

\* what a conversion of page p can come to on a document of n pages
PageOutcomes(p, n) ==
    IF 1 <= p /\ p <= n THEN {"ok", "engineError", "invalid", "sharpError"}
    ELSE {"engineError", "invalid"}

FastMkdir ==
    /\ pc = "start"
    /\ dirExists' = TRUE
    /\ pc' = "invoke"
    /\ UNCHANGED <<request, hostVars, dir, pageNumbers, launched, status, rejection, files,
                   generatedFiles, convertedPageNums, outcome, parsed, fastVars>>

\* parsePageRange and, without an await between, the first conversions
FastInvoke ==
    /\ pc = "invoke"
    /\ LET r == parsePageRangeFast(pages)
           bs == createBatches(r.pages, options.maxConcurrency)
       IN IF ~r.ok
          THEN /\ outcome' = Failure(r.message, 0)
               /\ pc' = "done"
               /\ UNCHANGED <<pageNumbers, batches, batchIdx, pending>>
          ELSE /\ pageNumbers' = r.pages
               /\ outcome' = outcome
               /\ IF Len(r.pages) = 0
                  THEN /\ pc' = IF format = "jpg" THEN "probe" ELSE "pngBulk"
                       /\ UNCHANGED <<batches, batchIdx, pending>>
                  ELSE /\ pc' = IF format = "jpg" THEN "jpgPages" ELSE "pngPages"
                       /\ batches' = bs
                       /\ batchIdx' = 1
                       /\ pending' = SeqToSet(bs[1])
    /\ UNCHANGED <<request, hostVars, dirExists, dir, launched, status, rejection, files,
                   generatedFiles, convertedPageNums, parsed, batchResults, results>>

\* const testResult = await convert(1, ...), then the bulk conversion
Probe(ok) ==
    /\ pc = "probe"
    /\ IF ok
       THEN pc' = "jpgBulk" /\ outcome' = outcome
       ELSE pc' = "done" /\ outcome' = Failure("engine", 1)
    /\ UNCHANGED <<request, hostVars, dirExists, dir, pageNumbers, launched, status, rejection,
                   files, generatedFiles, convertedPageNums, parsed, fastVars>>

\* const results = await convert.bulk(-1, ...): one result for every page
\* of the document, then the first batch of them
JpgBulk(ok) ==
    /\ pc = "jpgBulk"
    /\ IF ok
       THEN LET rs == [i \in 1..numPages |-> i]
                bs == createBatches(rs, options.maxConcurrency)
            IN /\ results' = rs
               /\ batches' = bs
               /\ batchIdx' = 1
               /\ pending' = SeqToSet(bs[1])
               /\ pc' = "jpgResults"
               /\ outcome' = outcome
       ELSE /\ pc' = "done"
            /\ outcome' = Failure("engine", 0)
            /\ UNCHANGED <<results, batches, batchIdx, pending>>
    /\ UNCHANGED <<request, hostVars, dirExists, dir, pageNumbers, launched, status, rejection,
                   files, generatedFiles, convertedPageNums, parsed, batchResults>>

\* one callback of batch.map in the bulk branch: the page is the result's
\* position in results; an error is logged and the page left out
JpgResult(item, oc) ==
    /\ pc = "jpgResults"
    /\ item \in pending
    /\ oc \in {"ok", "invalid", "sharpError"}
    /\ pending' = pending \ {item}
    /\ LET pageNumber == indexOf(results, item) + 1
       IN IF oc = "ok"
          THEN /\ dir' = dir \cup {canonicalName(pdfPath, pageNumber, "jpg")}
               /\ generatedFiles' = Append(generatedFiles, canonicalName(pdfPath, pageNumber, "jpg"))
               /\ convertedPageNums' = Append(convertedPageNums, pageNumber)
          ELSE UNCHANGED <<dir, generatedFiles, convertedPageNums>>
    /\ UNCHANGED <<request, hostVars, pc, dirExists, pageNumbers, launched, status, rejection,
                   files, outcome, parsed, batches, batchIdx, batchResults, results>>

\* one callback of batch.map in the specific-pages branch: every error is
\* caught and logged, and the page left out
JpgPage(pageNum, oc) ==
    /\ pc = "jpgPages"
    /\ pageNum \in pending
    /\ oc \in PageOutcomes(pageNum, numPages)
    /\ pending' = pending \ {pageNum}
    /\ IF oc = "ok"
       THEN /\ dir' = dir \cup {canonicalName(pdfPath, pageNum, "jpg")}
            /\ generatedFiles' = Append(generatedFiles, canonicalName(pdfPath, pageNum, "jpg"))
            /\ convertedPageNums' = Append(convertedPageNums, pageNum)
       ELSE UNCHANGED <<dir, generatedFiles, convertedPageNums>>
    /\ UNCHANGED <<request, hostVars, pc, dirExists, pageNumbers, launched, status, rejection,
                   files, outcome, parsed, batches, batchIdx, batchResults, results>>

\* one callback of batch.map in convertToPng: a rejected convert gives null
PngPage(pageNum, oc) ==
    /\ pc = "pngPages"
    /\ pageNum \in pending
    /\ oc \in PageOutcomes(pageNum, numPages) \ {"sharpError"}
    /\ pending' = pending \ {pageNum}
    /\ batchResults' = Append(batchResults,
                              [item |-> pageNum, result |-> IF oc = "engineError" THEN "null" ELSE oc])
    /\ dir' = IF oc = "ok" THEN dir \cup {Pdf2picFile(pdfPath, pageNum, "png")} ELSE dir
    /\ UNCHANGED <<request, hostVars, pc, dirExists, pageNumbers, launched, status, rejection,
                   files, generatedFiles, convertedPageNums, outcome, parsed, batches,
                   batchIdx, results>>

\* the results of a batch in the order of its items, nulls filtered out:
\* pngResults.push(...batchResults.filter(Boolean))
RECURSIVE BatchKept(_, _)
BatchKept(batch, settled) ==
    IF batch = <<>> THEN <<>>
    ELSE LET r == CHOOSE x \in SeqToSet(settled) : x.item = Head(batch)
         IN (IF r.result = "null" THEN <<>> ELSE <<r.item>>) \o BatchKept(Tail(batch), settled)

\* pagesConverted: pngResults.map((_, index) => index + 1)
PngPagesConverted(rs) == [index \in 1..Len(rs) |-> index]

\* the result object of convertDirectToJpg
\* a result that keeps the pages in the order they were converted
JpgResultObjectUnsorted(jpgFiles, convertedPages) ==
    Result(Len(jpgFiles), convertedPages, "jpg")

JpgResultObject(jpgFiles, convertedPages) ==
    Result(Len(jpgFiles), SortNum(convertedPages), "jpg")

\* the result object of convertToPng
PngResultObject(rs) == Result(Len(rs), PngPagesConverted(rs), "png")

\* the await Promise.all of a batch resolves: the next batch starts, or
\* after the last one the result is returned
BatchSettles ==
    /\ pc \in {"jpgPages", "jpgResults", "pngPages"}
    /\ pending = {}
    /\ LET collected == IF pc = "pngPages"
                        THEN results \o BatchKept(batches[batchIdx], batchResults)
                        ELSE results
       IN /\ results' = collected
          /\ IF batchIdx < Len(batches)
             THEN /\ batchIdx' = batchIdx + 1
                  /\ pending' = SeqToSet(batches[batchIdx + 1])
                  /\ UNCHANGED <<pc, outcome>>
             ELSE /\ pc' = "done"
                  /\ outcome' = IF pc = "pngPages"
                                THEN PngResultObject(collected)
                                ELSE JpgResultObject(generatedFiles, convertedPageNums)
                  /\ UNCHANGED <<batchIdx, pending>>
    /\ batchResults' = <<>>
    /\ UNCHANGED <<request, hostVars, dirExists, dir, pageNumbers, launched, status, rejection,
                   files, generatedFiles, convertedPageNums, parsed, batches>>

\* pngResults = await convert.bulk(-1, ...) in convertToPng
PngBulk(ok) ==
    /\ pc = "pngBulk"
    /\ IF ok
       THEN LET rs == [i \in 1..numPages |-> i]
            IN /\ results' = rs
               /\ dir' = dir \cup {Pdf2picFile(pdfPath, p, "png") : p \in 1..numPages}
               /\ outcome' = PngResultObject(rs)
       ELSE /\ outcome' = Failure("engine", 0)
            /\ UNCHANGED <<results, dir>>
    /\ pc' = "done"
    /\ UNCHANGED <<request, hostVars, dirExists, pageNumbers, launched, status, rejection,
                   files, generatedFiles, convertedPageNums, parsed, batches, batchIdx,
                   pending, batchResults>>

Outcomes == {"ok", "engineError", "invalid", "sharpError"}

InitFast ==
    /\ InitCall("fast", Selectors, Formats, 1..MaxDocPages, 1..MaxConcurrency, {1},
                {[exists |-> FALSE, files |-> {}], Directory({})})
    /\ HostIdle

NextFast ==
    \/ FastMkdir
    \/ FastInvoke
    \/ \E ok \in BOOLEAN : Probe(ok)
    \/ \E ok \in BOOLEAN : JpgBulk(ok)
    \/ \E item \in pending, oc \in Outcomes : JpgResult(item, oc)
    \/ \E pageNum \in pending, oc \in Outcomes : JpgPage(pageNum, oc)
    \/ \E pageNum \in pending, oc \in Outcomes : PngPage(pageNum, oc)
    \/ BatchSettles
    \/ \E ok \in BOOLEAN : PngBulk(ok)

SpecFast == InitFast /\ [][NextFast]_vars

(***************************************************************************)
(* The parsers alone, on every page expression of at most MaxExprLen       *)
(* characters and on "all".                                                *)
(***************************************************************************)
\* parsePageRange of converter.ts is called; a throw is caught
ParseLegacy ==
    /\ "legacy" \notin parsed.ran
    /\ parsed' = [parsed EXCEPT !.legacy = parsePageRangeLegacy(pages),
                                !.ran = @ \cup {"legacy"}]
    /\ UNCHANGED <<request, hostVars, pc, dirExists, dir, pageNumbers, launched, status, rejection,
                   files, generatedFiles, convertedPageNums, outcome, fastVars>>

\* parsePageRange of the Poppler converter is called; it has no throw
ParsePoppler ==
    /\ "poppler" \notin parsed.ran
    /\ parsed' = [parsed EXCEPT !.poppler = Parsed(parsePageRange(pages)),
                                !.ran = @ \cup {"poppler"}]
    /\ UNCHANGED <<request, hostVars, pc, dirExists, dir, pageNumbers, launched, status, rejection,
                   files, generatedFiles, convertedPageNums, outcome, fastVars>>

\* the longer expressions the documentation gives as examples
ExampleExprs ==
    { <<"3", ",", "1", ",", "2", ",", "2">>,
      <<"1", "-", "3", ",", "7", "-", "9">>,
      <<"1", ",", "x", ",", "3">>,
      <<" ", "2", " ", "-", " ", "3", " ">> }

InitParse ==
    /\ InitCall("parser", StringsUpTo(MaxExprLen) \cup ExampleExprs \cup {ALL},
                {"jpg"}, {1}, {0}, {1}, {Directory({})})
    /\ HostIdle

NextParse == ParseLegacy \/ ParsePoppler

SpecParse == InitParse /\ [][NextParse]_vars

(***************************************************************************)
(* The utilities: validatePdfFile and createOutputFilename.  A file name   *)
(* is a sequence of name parts; "." is the dot, the other parts hold no    *)
(* dot and no path separator.                                              *)
(***************************************************************************)
\* longest file name, in parts
MaxNameLen == 3

NameParts == {"a", ".", "pdf", "PDF", "txt"}

RECURSIVE NamesUpTo(_)
NamesUpTo(n) ==
    IF n = 0 THEN {<<>>}
    ELSE LET shorter == NamesUpTo(n - 1)
         IN shorter \cup {Append(s, c) : s \in {t \in shorter : Len(t) = n - 1},
                                          c \in NameParts}

FileNames == NamesUpTo(MaxNameLen) \ {<<>>}

FsKinds == {"missing", "file", "dir"}

PageNumbers == {0, 1, 2, 9, 12, 99, 100, 999, 1000}

\* a comparison of the extension that keeps the case
toLowerCaseKeepsCase(s) == s

\* String.prototype.toLowerCase
toLowerCase(s) == [i \in 1..Len(s) |-> IF s[i] = "PDF" THEN "pdf" ELSE s[i]]

\* path.extname: from the last dot of the name, "" when there is no dot,
\* when the only dot is the first character, and for ".."
extname(p) ==
    LET dots == {i \in 1..Len(p) : p[i] = "."}
    IN IF dots = {} THEN <<>>
       ELSE LET startDot == CHOOSE i \in dots : \A j \in dots : j <= i
            IN IF startDot = 1 \/ p = <<".", ".">> THEN <<>>
               ELSE SubSeq(p, startDot, Len(p))

\* throw new Error(`Invalid PDF file: ${error.message}`)
Rejected(msg, ext) ==
    [kind |-> "rejected", prefix |-> "Invalid PDF file: ", message |-> msg, got |-> ext]

Resolved == [kind |-> "resolved", prefix |-> "", message |-> "", got |-> <<>>]

\* await fs.access(filePath), then the test of the extension
ValidateAccess ==
    /\ vpc = "access"
    /\ LET ext == toLowerCase(extname(filePath))
       IN IF fsKind = "missing"
          THEN /\ validation' = Rejected("ENOENT", <<>>)
               /\ vpc' = "done"
          ELSE IF ext # PdfExt
          THEN /\ validation' = Rejected("File must be a PDF. Got: ", ext)
               /\ vpc' = "done"
          ELSE /\ vpc' = "stat"
               /\ UNCHANGED validation
    /\ UNCHANGED <<request, pc, dirExists, dir, pageNumbers, launched, status, rejection,
                   files, generatedFiles, convertedPageNums, outcome, parsed, fastVars,
                   filePath, fsKind, naming, serverVars, extraVars>>

\* await fs.stat(filePath), then stats.isFile()
ValidateStat ==
    /\ vpc = "stat"
    /\ validation' = IF fsKind = "file" THEN Resolved
                     ELSE Rejected("Path is not a file", <<>>)
    /\ vpc' = "done"
    /\ UNCHANGED <<request, pc, dirExists, dir, pageNumbers, launched, status, rejection,
                   files, generatedFiles, convertedPageNums, outcome, parsed, fastVars,
                   filePath, fsKind, naming, serverVars, extraVars>>

\* padStart(3, "0") of createOutputFilename
FilenamePadWidth == 3

DefaultExtension == "jpg"

\* a file name that keeps the extension of the original
createOutputFilenameKeepsExt(originalName, pageNumber, extension) ==
    originalName \o <<"_page_">>
        \o padStart(NumToDigits(pageNumber), FilenamePadWidth) \o <<".", extension>>

createOutputFilename(originalName, pageNumber, extension) ==
    LET baseName == basename(originalName, extname(originalName))
    IN baseName \o <<"_page_">>
           \o padStart(NumToDigits(pageNumber), FilenamePadWidth) \o <<".", extension>>

\* a call of createOutputFilename, with or without the third argument
CreateFilename(pageNumber, extension) ==
    /\ impl = "utils"
    /\ naming = NoNaming
    /\ naming' = [originalName |-> filePath,
                  pageNumber |-> pageNumber,
                  extension |-> extension,
                  result |-> createOutputFilename(filePath, pageNumber,
                                IF extension = "omitted" THEN DefaultExtension
                                ELSE extension)]
    /\ UNCHANGED <<request, pc, dirExists, dir, pageNumbers, launched, status, rejection,
                   files, generatedFiles, convertedPageNums, outcome, parsed, fastVars,
                   filePath, fsKind, vpc, validation, serverVars, extraVars>>

InitUtils ==
    /\ InitCall("utils", {ALL}, {"jpg"}, {1}, {0}, {1}, {Directory({})})
    /\ filePath \in FileNames
    /\ fsKind \in FsKinds
    /\ vpc = "access"
    /\ validation = NoValidation
    /\ naming = NoNaming
    /\ ServerIdle
    /\ ExtraIdle

NextUtils ==
    \/ ValidateAccess
    \/ ValidateStat
    \/ \E pageNumber \in PageNumbers, extension \in {"jpg", "png", "omitted"} :
          CreateFilename(pageNumber, extension)

SpecUtils == InitUtils /\ [][NextUtils]_vars

(***************************************************************************)
(* The POST /api/convert handler, in its local variant (the upload is a    *)
(* file under uploads/) and its cloud variant (the upload is an object of  *)
(* the bucket).  validatePdfFile, convertPdfToImages and the storage calls *)
(* are awaited calls that resolve or reject.                               *)
(***************************************************************************)
converterVars ==
    <<request, pc, dirExists, dir, pageNumbers, launched, status, rejection, files,
      generatedFiles, convertedPageNums, outcome, parsed, fastVars>>

Variants == {"local", "gcs"}

\* the awaited calls of the try block between the test of req.file and the
\* deletion of the upload, in order
TrySteps(v) ==
    IF v = "local"
    THEN <<"validatePdfFile", "convertPdfToImages", "readdir">>
    ELSE <<"createTempDir", "downloadFile", "mkdir", "validatePdfFile",
           "convertPdfToImages", "readdir", "uploadFile", "getSignedUrl">>

StepIndex(v, step) == CHOOSE i \in 1..Len(TrySteps(v)) : TrySteps(v)[i] = step

AfterStep(v, step) ==
    IF StepIndex(v, step) = Len(TrySteps(v)) THEN "delete"
    ELSE TrySteps(v)[StepIndex(v, step) + 1]

IsTryStep(v, step) == \E i \in 1..Len(TrySteps(v)) : TrySteps(v)[i] = step

\* a catch block that leaves the upload alone
CatchDeletesNever(v, file) == FALSE

\* if (req.file?.path) / if (req.file?.gcsObject): the catch block deletes
\* the upload when the request carried one
CatchDeletes(v, file) == file

\* a catch block that leaves the temporary directory alone
CatchRemovesNever(isSet) == FALSE

\* gcs catch: if (tempDir): the catch block removes the temporary directory
\* when createTempDir has returned its path
CatchRemoves(isSet) == isSet

\* gcs: await ensureBucket(), the first statement of the try block
EnsureBucket(ok) ==
    /\ hpc = "ensureBucket"
    /\ IF ok THEN hpc' = "checkFile" /\ UNCHANGED failedStep
       ELSE hpc' = "catch" /\ failedStep' = "ensureBucket"
    /\ UNCHANGED <<converterVars, utilVars, extraVars, tempVars, variant, reqFile, uploadPresent, tempDir,
                   deleteAttempts, response>>

\* if (!req.file) return res.status(400).json(...)
CheckFile ==
    /\ hpc = "checkFile"
    /\ IF ~reqFile
       THEN response' = 400 /\ hpc' = "done"
       ELSE hpc' = TrySteps(variant)[1] /\ UNCHANGED response
    /\ UNCHANGED <<converterVars, utilVars, extraVars, tempVars, variant, reqFile, uploadPresent, tempDir,
                   deleteAttempts, failedStep>>

\* one awaited call of the try block resolves, or rejects into the catch
TryStep(ok) ==
    /\ IsTryStep(variant, hpc)
    /\ IF ok
       THEN /\ hpc' = AfterStep(variant, hpc)
            /\ tempDir' = (tempDir \/ hpc = "createTempDir")
            /\ tempDirSet' = (tempDirSet \/ hpc = "createTempDir")
            /\ UNCHANGED failedStep
       ELSE /\ hpc' = "catch"
            /\ failedStep' = hpc
            /\ UNCHANGED <<tempDir, tempDirSet>>
    /\ UNCHANGED <<converterVars, utilVars, extraVars, rmAttempts, variant, reqFile, uploadPresent,
                   deleteAttempts, response>>

\* await fs.unlink(req.file.path) / await deleteFile(req.file.gcsObject)
DeleteUpload(ok) ==
    /\ hpc = "delete"
    /\ deleteAttempts' = deleteAttempts + 1
    /\ IF ok
       THEN /\ uploadPresent' = FALSE
            /\ hpc' = IF variant = "gcs" THEN "rmTemp" ELSE "respond"
            /\ UNCHANGED failedStep
       ELSE /\ hpc' = "catch"
            /\ failedStep' = "delete"
            /\ UNCHANGED uploadPresent
    /\ UNCHANGED <<converterVars, utilVars, extraVars, tempVars, variant, reqFile, tempDir, response>>

\* gcs: try { await fs.rm(tempDir, ...) } catch { warn }
RmTemp(ok) ==
    /\ hpc = "rmTemp"
    /\ tempDir' = (tempDir /\ ~ok)
    /\ rmAttempts' = rmAttempts + 1
    /\ hpc' = "respond"
    /\ UNCHANGED <<converterVars, utilVars, extraVars, tempDirSet, variant, reqFile, uploadPresent,
                   deleteAttempts, failedStep, response>>

\* res.json(response)
Respond ==
    /\ hpc = "respond"
    /\ response' = 200
    /\ hpc' = "done"
    /\ UNCHANGED <<converterVars, utilVars, extraVars, tempVars, variant, reqFile, uploadPresent, tempDir,
                   deleteAttempts, failedStep>>

\* catch: if (req.file?.path) try { await fs.unlink(req.file.path) } catch {}
\* In the cloud variant the path is gs://<bucket>/<object>, no local file:
\* the unlink deletes nothing and its error is logged.
CatchUnlink(ok) ==
    /\ hpc = "catch"
    /\ ok => (variant = "local" /\ uploadPresent)
    /\ IF variant = "local" /\ CatchDeletes(variant, reqFile)
       THEN /\ deleteAttempts' = deleteAttempts + 1
            /\ uploadPresent' = (uploadPresent /\ ~ok)
       ELSE UNCHANGED <<deleteAttempts, uploadPresent>>
    /\ hpc' = IF variant = "gcs" THEN "catchTemp" ELSE "respondError"
    /\ UNCHANGED <<converterVars, utilVars, extraVars, tempVars, variant, reqFile, tempDir, failedStep,
                   response>>

\* gcs catch: if (tempDir) try { await fs.rm(tempDir, ...) } catch {}
CatchRmTemp(ok) ==
    /\ hpc = "catchTemp"
    /\ IF CatchRemoves(tempDirSet)
       THEN /\ tempDir' = (tempDir /\ ~ok)
            /\ rmAttempts' = rmAttempts + 1
       ELSE UNCHANGED <<tempDir, rmAttempts>>
    /\ hpc' = "catchDelete"
    /\ UNCHANGED <<converterVars, utilVars, extraVars, tempDirSet, variant, reqFile, uploadPresent,
                   deleteAttempts, failedStep, response>>

\* gcs catch: if (req.file?.gcsObject) try { await deleteFile(...) } catch {}
CatchDeleteFile(ok) ==
    /\ hpc = "catchDelete"
    /\ ok => uploadPresent
    /\ IF CatchDeletes(variant, reqFile)
       THEN /\ deleteAttempts' = deleteAttempts + 1
            /\ uploadPresent' = (uploadPresent /\ ~ok)
       ELSE UNCHANGED <<deleteAttempts, uploadPresent>>
    /\ hpc' = "respondError"
    /\ UNCHANGED <<converterVars, utilVars, extraVars, tempVars, variant, reqFile, tempDir, failedStep,
                   response>>

\* res.status(500).json(...)
RespondError ==
    /\ hpc = "respondError"
    /\ response' = 500
    /\ hpc' = "done"
    /\ UNCHANGED <<converterVars, utilVars, extraVars, tempVars, variant, reqFile, uploadPresent, tempDir,
                   deleteAttempts, failedStep>>

InitServer ==
    /\ InitCall("server", {ALL}, {"jpg"}, {1}, {0}, {1}, {Directory({})})
    /\ UtilIdle
    /\ ExtraIdle
    /\ variant \in Variants
    /\ hpc = IF variant = "gcs" THEN "ensureBucket" ELSE "checkFile"
    /\ reqFile \in BOOLEAN
    /\ uploadPresent = reqFile
    /\ tempDir = FALSE
    /\ deleteAttempts = 0
    /\ failedStep = "none"
    /\ response = 0
    /\ tempDirSet = FALSE
    /\ rmAttempts = 0

NextServer ==
    \/ \E ok \in BOOLEAN : EnsureBucket(ok)
    \/ CheckFile
    \/ \E ok \in BOOLEAN : TryStep(ok)
    \/ \E ok \in BOOLEAN : DeleteUpload(ok)
    \/ \E ok \in BOOLEAN : RmTemp(ok)
    \/ Respond
    \/ \E ok \in BOOLEAN : CatchUnlink(ok)
    \/ \E ok \in BOOLEAN : CatchRmTemp(ok)
    \/ \E ok \in BOOLEAN : CatchDeleteFile(ok)
    \/ RespondError

SpecServer == InitServer /\ [][NextServer]_vars

(***************************************************************************)
(* The grammar of page expressions: what a term names.                     *)
(***************************************************************************)
IsIntLiteral(s) == s # <<>> /\ \A i \in 1..Len(s) : IsDigit(s[i])

RECURSIVE LiteralValue(_)
LiteralValue(s) ==
    IF s = <<>> THEN 0
    ELSE 10 * LiteralValue(SubSeq(s, 1, Len(s) - 1)) + DigitVal(s[Len(s)])

\* the pieces of s between separators c
Cuts(s, c) == {0, Len(s) + 1} \cup {i \in 1..Len(s) : s[i] = c}

Pieces(s, c) ==
    {SubSeq(s, a + 1, b - 1) :
        <<a, b>> \in {ab \in Cuts(s, c) \X Cuts(s, c) :
                        /\ ab[1] < ab[2]
                        /\ \A k \in Cuts(s, c) : ~(ab[1] < k /\ k < ab[2])}}

\* positions of the hyphen of a well-formed <start>-<end> term
HyphenSplits(t) ==
    {k \in 1..Len(t) : /\ t[k] = "-"
                       /\ IsIntLiteral(Trim(SubSeq(t, 1, k - 1)))
                       /\ IsIntLiteral(Trim(SubSeq(t, k + 1, Len(t))))}

TermValid(term) ==
    LET t == Trim(term) IN IsIntLiteral(t) \/ HyphenSplits(t) # {}

TermPages(term) ==
    LET t == Trim(term)
    IN IF IsIntLiteral(t) THEN {LiteralValue(t)}
       ELSE UNION {LiteralValue(Trim(SubSeq(t, 1, k - 1)))
                      .. LiteralValue(Trim(SubSeq(t, k + 1, Len(t)))) : k \in HyphenSplits(t)}

ExprValid(e) == e # ALL /\ \A t \in Pieces(e, ",") : TermValid(t)

ExprPages(e) == UNION {TermPages(t) : t \in Pieces(e, ",")}

\* a selector that is neither "all" nor an expression of the grammar
Unparseable(e) == e # ALL /\ ~ExprValid(e)

RECURSIVE Ascending(_)
Ascending(S) ==
    IF S = {} THEN <<>>
    ELSE LET m == CHOOSE x \in S : \A y \in S : x <= y
         IN <<m>> \o Ascending(S \ {m})

StrictlyAscending(s) == \A i \in 1..(Len(s) - 1) : s[i] < s[i + 1]

ParserResults ==
    {parsed[who] : who \in parsed.ran}

(***************************************************************************)
(* C5: for every valid page expression other than "all", each parser       *)
(* returns exactly the pages its terms name (the page of a single-number   *)
(* term, start..end of a hyphenated term), ascending and without           *)
(* duplicates, whatever the order and repetition of the terms.             *)
(***************************************************************************)
C5_ParserReturnsNamedPages ==
    ExprValid(pages) =>
        \A r \in ParserResults :
            /\ r.ok
            /\ r.pages = Ascending(ExprPages(pages))
            /\ StrictlyAscending(r.pages)

\* terms out of order and repeated: "3,1,2,2" parsed by both parsers
C5_Witness ==
    /\ parsed.ran = {"legacy", "poppler"}
    /\ pages = <<"3", ",", "1", ",", "2", ",", "2">>
    /\ ExprValid(pages)
    /\ parsed.poppler.pages = <<1, 2, 3>>
    /\ parsed.legacy.pages = <<1, 2, 3>>

(***************************************************************************)
(* C6: a page expression with a term that is neither an integer literal    *)
(* nor a well-formed <start>-<end> pair fails to parse, and the error      *)
(* names the offending term; it is not skipped or accepted in part.        *)
(***************************************************************************)
\* a term that is not valid and not blank
BadTerms(e) == {t \in Pieces(e, ",") : ~TermValid(t) /\ Trim(t) # <<>>}

C6_InvalidTermRejected ==
    (pages # ALL /\ BadTerms(pages) # {}) =>
        \A r \in ParserResults :
            /\ ~r.ok
            /\ \E t \in BadTerms(pages) : r.token = Trim(t)

(***************************************************************************)
(* C9: a page selection produced by a parser holds only pages >= 1.        *)
(***************************************************************************)
C9_PagesAtLeastOne ==
    pages # ALL =>
        \A r \in ParserResults : r.ok => \A i \in 1..Len(r.pages) : r.pages[i] >= 1

(***************************************************************************)
(* Claims about the Poppler converter.                                     *)
(***************************************************************************)
Returned == outcome.kind = "result"

Threw == outcome.kind = "error"

(***************************************************************************)
(* C3: every result has imageCount = length(pagesConverted), and           *)
(* pagesConverted strictly ascending without a duplicate, whatever the     *)
(* output directory holds when normalization runs.                         *)
(***************************************************************************)
C3_ResultCountAndOrder ==
    (Returned /\ (pages = ALL \/ ExprValid(pages))) =>
        /\ outcome.imageCount = Len(outcome.pagesConverted)
        /\ StrictlyAscending(outcome.pagesConverted)

(***************************************************************************)
(* C4: when one of the engine processes of a conversion fails, the         *)
(* conversion fails: no result is returned, normalization is not reached,  *)
(* and the error thrown is that of a failed process, however many of the   *)
(* other processes succeed.                                                *)
(***************************************************************************)
SomeFailed == \E i \in 1..Len(status) : status[i] = "failed"

C4_EngineFailureFailsConversion ==
    SomeFailed =>
        /\ ~Returned
        /\ pc \in {"await", "done"}
        /\ pc = "done" =>
              /\ Threw
              /\ outcome.error = "engine"
              /\ outcome.cause \in 1..Len(status)
              /\ status[outcome.cause] = "failed"

\* one process failed, another succeeded, and the call has thrown
C4_Witness ==
    /\ pc = "done"
    /\ Threw
    /\ \E i, j \in 1..Len(status) : status[i] = "failed" /\ status[j] = "ok"

(***************************************************************************)
(* C7: a selector that cannot be parsed makes the call fail before any     *)
(* engine process is launched and without a filesystem effect: the output  *)
(* directory is neither created nor modified.                              *)
(***************************************************************************)
C7_UnparseableFailsWithoutEffect ==
    (pages # ALL /\ BadTerms(pages) # {}) =>
        /\ launched = <<>>
        /\ dirExists = dir0.exists
        /\ dir = dir0.files
        /\ ~Returned

(***************************************************************************)
(* C8: a selector other than "all" that parses to zero pages is an input   *)
(* error: the call fails (EmptySelection) and returns no result.           *)
(***************************************************************************)
C8_EmptySelectionFails ==
    (pages # ALL /\ parsePageRange(pages) = <<>>) => ~Returned

(***************************************************************************)
(* C10: a conversion launches exactly one engine process for every         *)
(* maximal run of consecutive requested pages, with the run's first and    *)
(* last page as -f and -l; for "all" exactly one process, without page     *)
(* bounds; and once launched, no process is launched again.                *)
(***************************************************************************)
Requested == SeqToSet(pageNumbers)

\* the maximal runs of consecutive pages of a set
Runs(S) ==
    {ab \in S \X S : /\ ab[1] <= ab[2]
                     /\ \A p \in ab[1]..ab[2] : p \in S
                     /\ (ab[1] - 1) \notin S
                     /\ (ab[2] + 1) \notin S}

BoundsOf(i) == <<launched[i].f, launched[i].l>>

InvocationsMatchRanges ==
    /\ \A i \in 1..Len(launched) : launched[i].bounded => BoundsOf(i) \in Runs(Requested)
    /\ \A run \in Runs(Requested) :
          Cardinality({i \in 1..Len(launched) : launched[i].bounded /\ BoundsOf(i) = run}) = 1
    /\ pages = ALL => (Len(launched) = 1 /\ ~launched[1].bounded)

C10_OneInvocationPerRange ==
    /\ [](pc \in {"await", "readdir", "rename", "done"} /\ launched # <<>>
             => InvocationsMatchRanges)
    /\ [][launched = <<>> \/ launched' = launched]_vars

\* two ranges, each invoked once, both finished
C10_Witness ==
    /\ pc = "done"
    /\ Returned
    /\ Len(launched) = 2
    /\ BoundsOf(1) = <<1, 1>>
    /\ BoundsOf(2) = <<3, 3>>

(***************************************************************************)
(* Claims about the fast converter.                                        *)
(***************************************************************************)
\* the pages a valid request asks for
RequestedPages ==
    IF pages = ALL THEN 1..numPages ELSE ExprPages(pages)

\* the image of page p is in the output directory
Produced(p) ==
    IF format = "jpg" THEN canonicalName(pdfPath, p, "jpg") \in dir
    ELSE Pdf2picFile(pdfPath, p, "png") \in dir

(***************************************************************************)
(* C1: for an explicit selector whose pages all exist in the source, a     *)
(* successful conversion reports the requested page numbers themselves as  *)
(* pagesConverted, and their number as imageCount, for both formats.       *)
(* Stated for the runs in which every requested page was produced.         *)
(***************************************************************************)
C1_ExplicitSelectionReported ==
    ( /\ Returned
      /\ ExprValid(pages)
      /\ ExprPages(pages) # {}
      /\ ExprPages(pages) \subseteq 1..numPages
      /\ \A p \in ExprPages(pages) : Produced(p) )
    => /\ outcome.pagesConverted = Ascending(ExprPages(pages))
       /\ outcome.imageCount = Cardinality(ExprPages(pages))

(***************************************************************************)
(* C2: no partial success: a returned result holds every requested page    *)
(* (every page of the source for "all").  Stated for JPEG output, where    *)
(* pagesConverted holds page numbers.                                      *)
(***************************************************************************)
C2_NoPartialSuccess ==
    ( /\ Returned
      /\ format = "jpg"
      /\ pages = ALL \/ ExprValid(pages) )
    => \A p \in RequestedPages : p \in SeqToSet(outcome.pagesConverted)

(***************************************************************************)
(* C11: the quality option is on an engine command exactly when the format *)
(* is JPEG, with the requested quality; for PNG every command carries the  *)
(* -png flag, not the -jpeg flag, and no quality option.                   *)
(***************************************************************************)
C11_QualityOnlyForJpeg ==
    \A i \in 1..Len(launched) :
        /\ format = "png" =>
              /\ launched[i].formatFlag = "-png"
              /\ ~launched[i].jpegopt
        /\ format = "jpg" =>
              /\ launched[i].formatFlag = "-jpeg"
              /\ launched[i].jpegopt
              /\ launched[i].quality = options.quality

\* a PNG conversion of two ranges that has returned
C11_Witness ==
    /\ format = "png"
    /\ Len(launched) = 2
    /\ \A i \in 1..2 : launched[i].formatFlag = "-png" /\ ~launched[i].jpegopt
    /\ pc = "done"
    /\ outcome.kind = "result"

(***************************************************************************)
(* C12: after a successful conversion into an output directory that was    *)
(* empty (or absent), the directory holds exactly the files                *)
(* <base>_page_<page, three digits>.<ext> of the converted pages, one      *)
(* each: no file with the engine's name <prefix>-<n>.<ext> is left, and    *)
(* no file of a page that was not requested.                               *)
(***************************************************************************)
\* <base>_page_00<p>.<ext>, written out for a page of one digit
PageFile(p) ==
    SubSeq(pdfPath, 1, Len(pdfPath) - 2)
        \o <<"_page_", "0", "0", DigitChars[p + 1], ".", format>>

EngineNamed(file) == \E i \in 1..Len(file) : file[i] = "-"

HasPdfExtension(p) ==
    /\ Len(p) >= 3
    /\ p[Len(p) - 1] = "."
    /\ p[Len(p)] \in {"pdf", "PDF"}

(***************************************************************************)
(* C13: validatePdfFile resolves exactly when the path exists, has the     *)
(* extension .pdf in any case, and is a regular file; otherwise it rejects *)
(* with a message that starts with "Invalid PDF file: ", and the first     *)
(* check that fails, in the order existence, extension, file type, gives   *)
(* the rest of the message ("File must be a PDF" for the extension, "Path  *)
(* is not a file" for a directory named *.pdf).                            *)
(***************************************************************************)
C13_ValidationDecides ==
    vpc = "done" =>
        /\ validation.kind \in {"resolved", "rejected"}
        /\ validation.kind = "resolved" <=>
              (fsKind = "file" /\ HasPdfExtension(filePath))
        /\ validation.kind = "rejected" => validation.prefix = "Invalid PDF file: "
        /\ fsKind = "missing" => validation.message = "ENOENT"
        /\ (fsKind # "missing" /\ ~HasPdfExtension(filePath)) =>
              validation.message = "File must be a PDF. Got: "
        /\ (fsKind = "dir" /\ HasPdfExtension(filePath)) =>
              validation.message = "Path is not a file"

\* a directory named a.PDF is refused by the third check
C13_Witness ==
    /\ vpc = "done"
    /\ fsKind = "dir"
    /\ filePath = <<"a", ".", "PDF">>
    /\ validation.kind = "rejected"
    /\ validation.message = "Path is not a file"

(***************************************************************************)
(* C14: createOutputFilename(name, page, ext) is the name without its      *)
(* extension, then _page_, then the page number in decimal, padded with    *)
(* zeros on the left to three digits and never cut, then "." and ext,      *)
(* which is jpg when the argument is omitted.                              *)
(***************************************************************************)
\* the name up to its last dot, the whole name when no dot follows a character
Stem(name) ==
    IF \E k \in 2..Len(name) : name[k] = "." /\ name # <<".", ".">>
    THEN LET k == CHOOSE i \in 2..Len(name) :
                     name[i] = "." /\ \A j \in (i + 1)..Len(name) : name[j] # "."
         IN SubSeq(name, 1, k - 1)
    ELSE name

PageDigits(n) ==
    IF n < 10 THEN <<"0", "0">> \o NumToDigits(n)
    ELSE IF n < 100 THEN <<"0">> \o NumToDigits(n)
    ELSE NumToDigits(n)

C14_FilenameFormat ==
    naming # NoNaming =>
        /\ naming.result =
              Stem(naming.originalName) \o <<"_page_">> \o PageDigits(naming.pageNumber)
                  \o <<".", IF naming.extension = "omitted" THEN "jpg"
                            ELSE naming.extension>>
        /\ LiteralValue(PageDigits(naming.pageNumber)) = naming.pageNumber
        /\ Len(PageDigits(naming.pageNumber)) >= 3

\* page 12 of a.pdf without the third argument, and page 1000
C14_Witness ==
    /\ naming.originalName = <<"a", ".", "pdf">>
    /\ naming.extension = "omitted"
    /\ \/ naming.pageNumber = 12 /\ naming.result = <<"a", "_page_", "0", "1", "2", ".", "jpg">>
       \/ naming.pageNumber = 1000
            /\ naming.result = <<"a", "_page_", "1", "0", "0", "0", ".", "jpg">>

(***************************************************************************)
(* Claims about the /api/convert handler.                                  *)
(***************************************************************************)
(***************************************************************************)
(* C15: when a request carried an uploaded PDF, the handler has called the *)
(* deletion of the uploaded source (the upload file, or the bucket object  *)
(* in the cloud variant) before it sends a response, after a success and   *)
(* after an error of any step (validation, conversion, listing or          *)
(* uploading the outputs).                                                 *)
(***************************************************************************)
C15_UploadDeletedBeforeResponse ==
    (reqFile /\ response # 0) => deleteAttempts >= 1

\* the cloud variant answers 500 after a failed conversion, the object deleted
C15_Witness ==
    /\ variant = "gcs"
    /\ reqFile
    /\ failedStep = "convertPdfToImages"
    /\ response = 500
    /\ deleteAttempts = 1
    /\ ~uploadPresent

(***************************************************************************)
(* Claims about the concurrency of a conversion.                           *)
(***************************************************************************)
Running == {i \in 1..Len(status) : status[i] = "running"}

(***************************************************************************)
(* C16: when the call has returned or thrown, no engine process it         *)
(* launched is still running, also when one of several concurrent          *)
(* processes failed first.                                                 *)
(***************************************************************************)
C16_NoProcessOutlivesCall ==
    pc = "done" => Running = {}

(***************************************************************************)
(* C17: at every moment the number of engine processes running at once is  *)
(* at most the maxConcurrency option, however many ranges the selection    *)
(* has.                                                                    *)
(***************************************************************************)
C17_ConcurrencyBounded ==
    options.maxConcurrency >= 1 => Cardinality(Running) <= options.maxConcurrency

(***************************************************************************)
(* C18: pagesConverted of a result is ascending, in whatever order the     *)
(* concurrent page conversions of a batch completed.                       *)
(***************************************************************************)
C18_ResultAscending ==
    outcome.kind = "result" =>
        \A i \in 1..(Len(outcome.pagesConverted) - 1) :
            outcome.pagesConverted[i] <= outcome.pagesConverted[i + 1]

\* page 3 completed before page 1, and the result lists 1 before 3
C18_Witness ==
    /\ outcome.kind = "result"
    /\ format = "jpg"
    /\ convertedPageNums = <<3, 1>>
    /\ outcome.pagesConverted = <<1, 3>>

(***************************************************************************)
(* C19: the engine processes launched by one conversion have pairwise      *)
(* disjoint page ranges, and so write pairwise disjoint sets of file       *)
(* names.                                                                  *)
(***************************************************************************)
RangePages(i) == launched[i].f .. launched[i].l

WritableFiles(i) ==
    {EngineFile(launched[i], p, padWidth) : p \in RangePages(i)}

C19_RangesDisjoint ==
    \A i, j \in 1..Len(launched) :
        i # j =>
            /\ launched[i].bounded /\ launched[j].bounded
            /\ RangePages(i) \cap RangePages(j) = {}
            /\ WritableFiles(i) \cap WritableFiles(j) = {}

\* "3,1,1": two processes, for page 1 and for page 3, both finished
C19_Witness ==
    /\ pages = <<"3", ",", "1", ",", "1">>
    /\ Len(launched) = 2
    /\ RangePages(1) = {1}
    /\ RangePages(2) = {3}
    /\ \A i \in 1..2 : status[i] = "ok"

(***************************************************************************)
(* C20: when the normalization would rename a file to a canonical name     *)
(* that is already in the output directory, the conversion fails with a    *)
(* fatal error and the directory is left as it is: no file is overwritten. *)
(***************************************************************************)
\* the step renames a file of the directory onto another file of it
Collision ==
    /\ pc = "rename"
    /\ \E file \in files :
          /\ files' = files \ {file}
          /\ endsWith(file, <<".", format>>)
          /\ matchPageToken(file) # <<>>
          /\ LET target == PageFile(LiteralValue(matchPageToken(file)))
             IN target # file /\ target \in dir

C20_CollisionIsFatal ==
    [][Collision => (outcome'.kind = "error" /\ dir' = dir)]_vars

(***************************************************************************)
(* getRanges on its own, over every ascending page list without            *)
(* duplicates of the pages 1..MaxPage.                                     *)
(***************************************************************************)
\* largest page number of a page list
MaxPage == 12

PageLists == {Ascending(S) : S \in SUBSET (1..MaxPage)}

\* const ranges = getRanges(pageNumbers)
Coalesce ==
    /\ impl = "getRanges"
    /\ ~pageRanges.returned
    /\ pageRanges' = [returned |-> TRUE, value |-> getRanges(pageList)]
    /\ UNCHANGED <<converterVars, utilVars, serverVars, pageList, normVars, dirVars,
                   loopVars>>

InitRanges ==
    /\ InitCall("getRanges", {ALL}, {"jpg"}, {1}, {0}, {1}, {Directory({})})
    /\ UtilIdle
    /\ ServerIdle
    /\ NormIdle
    /\ DirIdle
    /\ LoopIdle
    /\ pageList \in PageLists
    /\ pageRanges = NoRanges

NextRanges == Coalesce

SpecRanges == InitRanges /\ [][NextRanges]_vars

(***************************************************************************)
(* Claims about getRanges.                                                 *)
(***************************************************************************)
Coalesced == pageRanges.returned

returnedRanges == pageRanges.value

(***************************************************************************)
(* C21: for every ascending page list without duplicates, getRanges        *)
(* returns ranges with start <= end, ascending by start, and maximal: a    *)
(* range starts after a gap, next.start > previous.end + 1 (so no two      *)
(* overlap or touch).  The empty list gives no range, and the list of      *)
(* "1-3,7,10-12" gives (1,3), (7,7), (10,12).                              *)
(***************************************************************************)
C21_RangesMaximal ==
    Coalesced =>
        /\ \A i \in 1..Len(returnedRanges) : returnedRanges[i].start <= returnedRanges[i].end
        /\ \A i \in 1..(Len(returnedRanges) - 1) : returnedRanges[i + 1].start > returnedRanges[i].end + 1
        /\ pageList = <<>> => returnedRanges = <<>>
        /\ pageList = <<1, 2, 3, 7, 10, 11, 12>> =>
              returnedRanges = << [start |-> 1, end |-> 3], [start |-> 7, end |-> 7],
                          [start |-> 10, end |-> 12] >>

\* the list of "1-3,7,10-12" and its three ranges
C21_Witness ==
    /\ pageList = <<1, 2, 3, 7, 10, 11, 12>>
    /\ Coalesced
    /\ Len(returnedRanges) = 3
    /\ returnedRanges[2] = [start |-> 7, end |-> 7]

(***************************************************************************)
(* C22: round trip: the pages start..end of the ranges getRanges returns,  *)
(* one range after the other, are the page list it was given: no page      *)
(* added, lost or repeated.                                                *)
(***************************************************************************)
RECURSIVE Expand(_, _)
Expand(a, b) == IF a > b THEN <<>> ELSE <<a>> \o Expand(a + 1, b)

RECURSIVE Flatten(_)
Flatten(rs) ==
    IF rs = <<>> THEN <<>>
    ELSE Expand(Head(rs).start, Head(rs).end) \o Flatten(Tail(rs))

C22_RoundTrip ==
    Coalesced => Flatten(returnedRanges) = pageList

\* a list with a run, a gap and a single page comes back from its two ranges
C22_Witness ==
    /\ pageList = <<2, 3, 4, 9>>
    /\ Coalesced
    /\ Len(returnedRanges) = 2
    /\ Flatten(returnedRanges) = <<2, 3, 4, 9>>

(***************************************************************************)
(* The normalization of convertPdfToImages on its own: readdir, the        *)
(* renaming loop and the result, run on a directory the engine has left,   *)
(* and run a second time on what the first run left.                       *)
(***************************************************************************)
\* most entries of a directory explored
MaxEntries == 3

\* engine outputs of test.pdf and of another source, a canonical name, and
\* entries that are no page image
EntryNames ==
    { <<"test", "-", "1", ".", "jpg">>,
      <<"test", "-", "0", "1", ".", "jpg">>,
      <<"test", "-", "2", ".", "jpg">>,
      <<"test", "-", "3", ".", "png">>,
      <<"other", "-", "2", ".", "png">>,
      <<"test", "_page_", "0", "0", "1", ".", "jpg">>,
      <<"test", "2", ".", "jpg">>,
      <<"notes", ".", "txt">> }

EngineDirs ==
    { Directory(names) : names \in {S \in SUBSET EntryNames : Cardinality(S) <= MaxEntries} }

\* largest number of runs on one directory
MaxPasses == 2

\* control reaches fs.readdir(outputDir): the first time on the directory the
\* engine left, then again on the directory the run before left
BeginPass ==
    /\ impl = "normalize"
    /\ pc \in {"start", "done"}
    /\ pass < MaxPasses
    /\ pass' = pass + 1
    /\ firstPass' = IF pass = 0 THEN firstPass ELSE [dir |-> dir, outcome |-> outcome]
    /\ pc' = "readdir"
    /\ generatedFiles' = <<>>
    /\ convertedPageNums' = <<>>
    /\ outcome' = NoOutcome
    /\ UNCHANGED <<request, utilVars, serverVars, rangeVars, dirVars, loopVars, dirExists,
                   dir, pageNumbers,
                   launched, status, rejection, files, parsed, fastVars>>

InitNormalize ==
    /\ InitCall("normalize", {ALL}, Formats, {1}, {0}, {1}, EngineDirs)
    /\ HostIdle

NextNormalize ==
    \/ BeginPass
    \/ Readdir
    \/ \E file \in files : RenameStep(file)
    \/ Finish

SpecNormalize == InitNormalize /\ [][NextNormalize]_vars

(***************************************************************************)
(* Claims about the normalization.                                         *)
(***************************************************************************)
(***************************************************************************)
(* C23: the normalization is idempotent: run a second time on a directory  *)
(* it has normalized, it renames no file and leaves the set of file names  *)
(* as it is.                                                               *)
(***************************************************************************)
C23_NormalizationIdempotent ==
    [][pass >= 2 => dir' = dir]_vars

\* a second run has finished on a directory where the first run renamed
\* engine outputs to two canonical names
C23_Witness ==
    /\ pass = 2
    /\ pc = "done"
    /\ firstPass.outcome.imageCount >= 2
    /\ PageFile(1) \in dir
    /\ PageFile(2) \in dir
    /\ dir = firstPass.dir

(***************************************************************************)
(* C24: an entry whose extension is not the requested format, or whose     *)
(* name does not end in a page token (a hyphen and digits) just before the *)
(* extension, is neither renamed nor counted and is left as it is; the     *)
(* page numbers reported are the numbers read from the other entries,      *)
(* leading zeros ignored, none invented and none dropped.                  *)
(***************************************************************************)
\* the digits of the page token of an entry of the requested format
TokenDigits(e) ==
    { ds \in {SubSeq(e, k, Len(e) - 2) : k \in 2..(Len(e) - 2)} :
          /\ IsIntLiteral(ds)
          /\ e[Len(e) - Len(ds) - 2] = "-" }

IsPageImage(e) ==
    /\ Len(e) >= 4
    /\ e[Len(e)] = format
    /\ e[Len(e) - 1] = "."
    /\ TokenDigits(e) # {}

PageOf(e) == LiteralValue(CHOOSE ds \in TokenDigits(e) : TRUE)

\* the step replaces entry e by another file renamed to its name
Overwrites(e) ==
    \E file \in files :
        /\ files' = files \ {file}
        /\ IsPageImage(file)
        /\ file # e
        /\ PageFile(PageOf(file)) = e

C24_OtherEntriesLeftAlone ==
    [][ /\ (pass = 1 /\ pc = "rename") =>
            \A e \in dir0.files :
                ~IsPageImage(e) => (e \in dir /\ e \in dir' /\ ~Overwrites(e))
        /\ (pass = 1 /\ pc = "rename" /\ pc' = "done") =>
            /\ Len(outcome'.pagesConverted)
                 = Cardinality({e \in dir0.files : IsPageImage(e)})
            /\ SeqToSet(outcome'.pagesConverted)
                 = {PageOf(e) : e \in {f \in dir0.files : IsPageImage(f)}}
      ]_vars

(***************************************************************************)
(* C25: a conversion runs the engine without page bounds, on the whole     *)
(* document, if and only if the page selector is exactly "all": no other   *)
(* selector, whatever it parses to, converts the whole document.           *)
(***************************************************************************)
WholeDocument == \E i \in 1..Len(launched) : ~launched[i].bounded

C25_WholeDocumentIffAll ==
    launched # <<>> => (WholeDocument <=> pages = ALL)

(***************************************************************************)
(* C26: for an explicit selection, every page number of pagesConverted is  *)
(* a page of the selection: a file the engine invocations of this          *)
(* conversion did not write (one that was in the output directory before,  *)
(* or one of another source) is not reported as a converted page.          *)
(***************************************************************************)
ExplicitSelection == pages # ALL /\ ExprValid(pages) /\ ExprPages(pages) # {}

C26_ReportedPagesWereRequested ==
    (Returned /\ ExplicitSelection) =>
        SeqToSet(outcome.pagesConverted) \subseteq ExprPages(pages)

(***************************************************************************)
(* C30: in the cloud-storage server, a request for which createTempDir     *)
(* made a temporary directory has called fs.rm on it before its response   *)
(* is sent, whether the conversion succeeded or a later step failed.       *)
(***************************************************************************)
C30_TempDirRemovalAttempted ==
    (variant = "gcs" /\ tempDirSet /\ response # 0) => rmAttempts >= 1

\* the conversion failed after the directory was made, the catch block
\* called fs.rm, and the error response is sent
C30_Witness ==
    /\ variant = "gcs"
    /\ tempDirSet
    /\ failedStep = "convertPdfToImages"
    /\ response = 500
    /\ rmAttempts = 1

(***************************************************************************)
(* The directories of concurrent /api/convert requests: every handler      *)
(* names its directory after Date.now(), the millisecond clock of the      *)
(* process; the handlers of several requests interleave at their awaits.   *)
(***************************************************************************)
\* last millisecond explored
MaxClock == 3

\* a millisecond passes
Tick ==
    /\ impl = "requests"
    /\ now < MaxClock
    /\ now' = now + 1
    /\ UNCHANGED <<converterVars, utilVars, serverVars, rangeVars, normVars, loopVars,
                   reqState, reqDir>>

\* the handler of a request runs up to its first await after the directory
\* name: `conversion-${Date.now()}` / "pdf-to-image-" + Date.now()
ChooseDir(r) ==
    /\ impl = "requests"
    /\ reqState[r] = "idle"
    /\ reqState' = [reqState EXCEPT ![r] = "inflight"]
    /\ reqDir' = [reqDir EXCEPT ![r] = now]
    /\ UNCHANGED <<converterVars, utilVars, serverVars, rangeVars, normVars, loopVars, now>>

\* the response of a request is sent
RequestDone(r) ==
    /\ impl = "requests"
    /\ reqState[r] = "inflight"
    /\ reqState' = [reqState EXCEPT ![r] = "done"]
    /\ UNCHANGED <<converterVars, utilVars, serverVars, rangeVars, normVars, loopVars, now,
                   reqDir>>

InitDirs ==
    /\ InitCall("requests", {ALL}, {"jpg"}, {1}, {0}, {1}, {Directory({})})
    /\ HostIdle

NextDirs ==
    \/ Tick
    \/ \E r \in Requests : ChooseDir(r)
    \/ \E r \in Requests : RequestDone(r)

SpecDirs == InitDirs /\ [][NextDirs]_vars

(***************************************************************************)
(* C27: two /api/convert requests in flight at the same time never have    *)
(* the same output or temporary directory.                                 *)
(***************************************************************************)
InFlight(r) == reqState[r] = "inflight"

C27_DirectoriesDistinct ==
    \A r1, r2 \in Requests :
        (r1 # r2 /\ InFlight(r1) /\ InFlight(r2)) => reqDir[r1] # reqDir[r2]

(***************************************************************************)
(* createBatches as the loop it is, for every batchSize a caller can pass  *)
(* as maxConcurrency, 0 included: the default of convertPdfToImagesFast    *)
(* applies only when the option is undefined.                              *)
(***************************************************************************)
\* longest list of items explored
MaxItems == 4

\* batches kept of a loop that does not end: the code goes on pushing, the
\* model stops recording
MaxBatches == 6

ItemLists == {Ascending(S) : S \in SUBSET (1..MaxItems)}

Min(a, b) == IF a <= b THEN a ELSE b

\* items.slice(from, to) for 0 <= from
slice(s, from, to) == SubSeq(s, from + 1, Min(to, Len(s)))

\* i < items.length: batches.push(items.slice(i, i + batchSize)); i += batchSize
BatchPush ==
    /\ impl = "createBatches"
    /\ loopPc = "loop"
    /\ loopI < Len(loopItems)
    /\ Len(loopBatches) < MaxBatches
    /\ loopBatches' = Append(loopBatches, slice(loopItems, loopI, loopI + loopSize))
    /\ loopI' = loopI + loopSize
    /\ UNCHANGED <<converterVars, utilVars, serverVars, rangeVars, normVars, dirVars,
                   loopItems, loopSize, loopPc>>

\* !(i < items.length): return batches
BatchReturn ==
    /\ impl = "createBatches"
    /\ loopPc = "loop"
    /\ ~(loopI < Len(loopItems))
    /\ loopPc' = "returned"
    /\ UNCHANGED <<converterVars, utilVars, serverVars, rangeVars, normVars, dirVars,
                   loopItems, loopSize, loopI, loopBatches>>

InitBatches ==
    /\ InitCall("createBatches", {ALL}, {"jpg"}, {1}, {0}, {1}, {Directory({})})
    /\ UtilIdle
    /\ ServerIdle
    /\ RangeIdle
    /\ NormIdle
    /\ DirIdle
    /\ loopItems \in ItemLists
    /\ loopSize \in 0..MaxConcurrency
    /\ loopI = 0
    /\ loopBatches = <<>>
    /\ loopPc = "loop"

NextBatches ==
    \/ BatchPush
    \/ BatchReturn

SpecBatches == InitBatches /\ [][NextBatches]_vars

\* the loop is synchronous code: it runs on while it can
SpecBatchesFair == SpecBatches /\ WF_vars(NextBatches)

(***************************************************************************)
(* C28: for every page list and every maxConcurrency a caller can pass,    *)
(* batching terminates and returns consecutive batches whose concatenation *)
(* is the input in order, every page in exactly one batch and no batch     *)
(* longer than maxConcurrency.                                             *)
(***************************************************************************)
RECURSIVE Concat(_)
Concat(ss) == IF ss = <<>> THEN <<>> ELSE Head(ss) \o Concat(Tail(ss))

C28_BatchingTerminates ==
    <>( /\ loopPc = "returned"
        /\ Concat(loopBatches) = loopItems
        /\ \A k \in 1..Len(loopBatches) : Len(loopBatches[k]) <= loopSize )

(***************************************************************************)
(* C29: for every source path that validatePdfFile accepts, an upper-case  *)
(* .PDF extension included, and every page, the canonical file name the    *)
(* converters give the page is createOutputFilename(source, page, ext):    *)
(* both derive the same base name from the source path.                    *)
(***************************************************************************)
C29_SameCanonicalName ==
    (validation.kind = "resolved" /\ naming # NoNaming) =>
        LET ext == IF naming.extension = "omitted" THEN DefaultExtension
                   ELSE naming.extension
        IN naming.result = canonicalName(naming.originalName, naming.pageNumber, ext)

====
